---- MODULE Spec2Model ----
(***************************************************************************)
(* The fuel-management backend (src/app.py): six Flask handlers over two   *)
(* PostgreSQL tables, sales and customers.  Each request is handled by a   *)
(* worker that validates the JSON body or query string, opens a            *)
(* connection, executes one SQL statement inside a transaction, commits    *)
(* and answers.  Workers interleave at the statement and at the commit.    *)
(*                                                                         *)
(* Text is modelled as a sequence of one-character strings, JSON values as *)
(* tagged records, a table as the sequence of its rows in insertion order  *)
(* (the row's index is its SERIAL id).                                     *)
(***************************************************************************)
EXTENDS Integers, Sequences, FiniteSets, TLC

VARIABLES
    customers,  \* the customers table: rows [name, points]
    sales,      \* the sales table: rows [fuel_type, quantity, price, date]
    pc,         \* pc[p]: where worker p is: "idle", "exec", "commit", "done"
    req,        \* req[p]: the request worker p is handling
    tx,         \* tx[p]: worker p's open transaction: its uncommitted effect
    resp,       \* resp[p]: the response worker p has built
    conn,       \* conn[p]: worker p's frame holds an open connection
    garbage,    \* open connections no frame refers to any more
    acked       \* acked[n]: points acknowledged with a 200 for the name n

vars == <<customers, sales, pc, req, tx, resp, conn, garbage, acked>>

----------------------------------------------------------------------------
(* Bounds of the model *)

\* A reward request is only issued while every counter is at most MaxPoints.
MaxPoints == 3
\* A sale request is only issued while the ledger has fewer rows than MaxSales.
MaxSales == 2
\* Connections that may wait for the garbage collector at the same time.
MaxGarbage == 1

\* The largest value of a PostgreSQL INTEGER column (customers.points).
IntMax == 2147483647

Procs == {1, 2}

----------------------------------------------------------------------------
(* JSON values *)

Absent == [k |-> "absent"]
Null == [k |-> "null"]
List == [k |-> "list"]
JInt(n) == [k |-> "int", n |-> n]
JFloat(t) == [k |-> "float", tenths |-> t]
JStr(s) == [k |-> "str", s |-> s]

----------------------------------------------------------------------------
(* Text *)

IsSpace(c) == c \in {" ", "\t"}

RECURSIVE LStrip(_)
LStrip(s) == IF s # <<>> /\ IsSpace(Head(s)) THEN LStrip(Tail(s)) ELSE s

RECURSIVE RStrip(_)
RStrip(s) ==
    IF s # <<>> /\ IsSpace(s[Len(s)]) THEN RStrip(SubSeq(s, 1, Len(s) - 1)) ELSE s

\* A faulty variant of Strip, to test the properties against: the name is stored as it was sent.
StripNothing(s) == s

\* str.strip()
Strip(s) == RStrip(LStrip(s))

DigitChars == <<"0", "1", "2", "3", "4", "5", "6", "7", "8", "9">>

IsDigit(c) == \E i \in 1..10 : DigitChars[i] = c

DigitVal(c) == (CHOOSE i \in 1..10 : DigitChars[i] = c) - 1

RECURSIVE DigitsVal(_)
DigitsVal(s) ==
    IF s = <<>> THEN 0
    ELSE 10 * DigitsVal(SubSeq(s, 1, Len(s) - 1)) + DigitVal(s[Len(s)])

\* The text is an optionally signed run of decimal digits.
IsIntLiteral(s) ==
    LET d == IF s # <<>> /\ Head(s) \in {"+", "-"} THEN Tail(s) ELSE s
    IN  d # <<>> /\ \A i \in 1..Len(d) : IsDigit(d[i])

IntLiteralVal(s) ==
    IF Head(s) = "-" THEN 0 - DigitsVal(Tail(s))
    ELSE IF Head(s) = "+" THEN DigitsVal(Tail(s))
    ELSE DigitsVal(s)

\* int(x): an int is itself, a float is truncated towards zero, a text is
\* parsed after stripping (ValueError when it is no integer literal), anything
\* else is a TypeError.
PyInt(v) ==
    CASE v.k = "int" -> [exc |-> "none", n |-> v.n]
      [] v.k = "float" ->
            [exc |-> "none",
             n |-> IF v.tenths >= 0 THEN v.tenths \div 10
                   ELSE 0 - ((0 - v.tenths) \div 10)]
      [] v.k = "str" ->
            IF IsIntLiteral(Strip(v.s))
            THEN [exc |-> "none", n |-> IntLiteralVal(Strip(v.s))]
            ELSE [exc |-> "ValueError", n |-> 0]
      [] OTHER -> [exc |-> "TypeError", n |-> 0]

----------------------------------------------------------------------------
(* Requests, transactions, responses *)

NoReq == [op |-> "none"]
NoTx == [k |-> "none", rowcount |-> 0]
NoResp == [status |-> 0, body |-> "", rows |-> <<>>]

Reply(status, body) == [status |-> status, body |-> body, rows |-> <<>>]

NameInputs ==
    {Absent, JStr(<<>>), JStr(<<" ">>), JStr(<<"a">>), JStr(<<"b">>),
     JStr(<<" ", "a">>), JStr(<<"a", "\t">>)}

PointsInputs ==
    {Absent, Null, List, JInt(0 - 1), JInt(0), JInt(1), JInt(2), JInt(IntMax),
     JFloat(25), JStr(<<"x">>), JStr(<<" ", "2">>)}

CustomerRequests == {[op |-> "customer", name |-> n] : n \in NameInputs}

RewardRequests ==
    {[op |-> "reward", name |-> n, points |-> v] :
        n \in NameInputs, v \in PointsInputs}

Diesel == <<"d", "i", "e", "s", "e", "l">>
Petrol == <<"p", "e", "t", "r", "o", "l">>
Custom == <<"c", "u", "s", "t", "o", "m">>
AllTime == <<"a", "l", "l", "t", "i", "m", "e">>

\* The dates sales carry: digit texts, ordered as texts ("10" sorts before "2").
SaleDates == {<<"1", "0">>, <<"2">>}

ValidSaleRequests ==
    {[op |-> "sale", fuel_type |-> JStr(f), quantity |-> JInt(q),
      price |-> JInt(3), date |-> JStr(d)] :
        f \in {Diesel, Petrol}, q \in {1, 2}, d \in SaleDates}

\* A valid request whose quantity is sent as text.
BaseSale ==
    [op |-> "sale", fuel_type |-> JStr(Diesel), quantity |-> JStr(<<"2">>),
     price |-> JInt(3), date |-> JStr(<<"2">>)]

\* BaseSale with one field left out, null or, for a number, not numeric.
FlawedSaleRequests ==
    {[BaseSale EXCEPT !.fuel_type = v] : v \in {Absent, Null}}
        \cup {[BaseSale EXCEPT !.quantity = v] : v \in {Absent, Null, JStr(<<"x">>)}}
        \cup {[BaseSale EXCEPT !.price = v] : v \in {Absent, Null, JStr(<<"x">>)}}
        \cup {[BaseSale EXCEPT !.date = v] : v \in {Absent, Null}}

SaleRequests == ValidSaleRequests \cup {BaseSale} \cup FlawedSaleRequests

Endpoints == {"sales_by_type", "sales_over_time", "reports"}

ReportRequests ==
    {[op |-> "report", endpoint |-> e, filter |-> f, start_date |-> a, end_date |-> b] :
        e \in Endpoints,
        f \in {Absent, JStr(AllTime), JStr(Custom)},
        a \in {Absent, JStr(<<>>), JStr(<<"1">>), JStr(<<"2">>)},
        b \in {Absent, JStr(<<>>), JStr(<<"1">>), JStr(<<"2">>)}}

\* Every text a request can name a customer by, stripped or not.
Names ==
    {n.s : n \in NameInputs \ {Absent}}
        \cup {Strip(n.s) : n \in NameInputs \ {Absent}}

----------------------------------------------------------------------------
(* The store *)

\* A faulty variant of MatchingRows, to test the properties against: the UPDATE has no WHERE clause.
AllRows(name) == DOMAIN customers

\* The rows of customers the statement's WHERE name = %s selects.
MatchingRows(name) == {i \in DOMAIN customers : customers[i].name = name}

\* A faulty variant of RowLocked, to test the properties against: the store takes no row lock for an UPDATE.
RowNeverLocked(i, p) == FALSE

\* Row i of customers is locked by the uncommitted UPDATE of another worker.
RowLocked(i, p) ==
    \E q \in Procs \ {p} : tx[q].k = "update" /\ i \in DOMAIN tx[q].new

\* A faulty variant of NameConflict, to test the properties against: the name column has no UNIQUE constraint.
NameNeverConflicts(name) == FALSE

\* The UNIQUE constraint on customers.name: a committed row has the name.
NameConflict(name) == MatchingRows(name) # {}

\* Another worker's uncommitted INSERT of the same name: the statement waits.
InsertPending(name, p) ==
    \E q \in Procs \ {p} : tx[q].k = "insert_customer" /\ tx[q].name = name

\* a <= b as texts: character by character, a prefix before its extensions.
RECURSIVE TextLE(_, _)
TextLE(a, b) ==
    IF a = <<>> THEN TRUE
    ELSE IF b = <<>> THEN FALSE
    ELSE IF Head(a) = Head(b) THEN TextLE(Tail(a), Tail(b))
    ELSE DigitVal(Head(a)) < DigitVal(Head(b))

\* The value a REAL column takes from a parameter: a number, or a text that
\* is a numeric literal.  (The model's numbers are small integers, which a
\* REAL holds exactly.)
IsNumeric(v) == v.k = "int" \/ (v.k = "str" /\ IsIntLiteral(Strip(v.s)))

RealValue(v) == IF v.k = "int" THEN v.n ELSE IntLiteralVal(Strip(v.s))

\* The error the INSERT INTO sales raises for the request r, "none" if none:
\* every column is NOT NULL, quantity and price are REAL.
SaleError(r) ==
    IF Null \in {r.fuel_type, r.quantity, r.price, r.date}
    THEN "null value violates not-null constraint"
    ELSE IF ~IsNumeric(r.quantity) \/ ~IsNumeric(r.price)
    THEN "invalid input syntax for type real"
    ELSE "none"

\* A faulty variant of SaleRow, to test the properties against: quantity and price change places in the VALUES list.
SaleRowSwapped(r) ==
    [fuel_type |-> r.fuel_type.s, quantity |-> RealValue(r.price),
     price |-> RealValue(r.quantity), date |-> r.date.s]

\* The row the INSERT INTO sales adds for the request r.
SaleRow(r) ==
    [fuel_type |-> r.fuel_type.s, quantity |-> RealValue(r.quantity),
     price |-> RealValue(r.price), date |-> r.date.s]

----------------------------------------------------------------------------
(* Initial state: the tables init_db creates, no request in flight *)

Init ==
    /\ customers = <<>>
    /\ sales = <<>>
    /\ pc = [p \in Procs |-> "idle"]
    /\ req = [p \in Procs |-> NoReq]
    /\ tx = [p \in Procs |-> NoTx]
    /\ resp = [p \in Procs |-> NoResp]
    /\ conn = [p \in Procs |-> FALSE]
    /\ garbage = 0
    /\ acked = [n \in Names |-> 0]

----------------------------------------------------------------------------
(* Validation: the handler up to its with get_db_connection().  Each       *)
(* operator gives the response the handler returns before it connects,     *)
(* NoResp when the request passes.                                         *)

ValidateSale(r) ==
    IF Absent \in {r.fuel_type, r.quantity, r.price, r.date}
    THEN Reply(400, "Missing required fields")
    ELSE NoResp

ValidateCustomer(r) ==
    IF r.name = Absent \/ Strip(r.name.s) = <<>>
    THEN Reply(400, "Customer name is required")
    ELSE NoResp

ValidateReward(r) ==
    IF r.name = Absent \/ r.points = Absent
    THEN Reply(400, "Name and points are required")
    ELSE LET c == PyInt(r.points)
         IN  CASE c.exc = "ValueError" -> Reply(400, "Invalid points value")
               [] c.exc = "TypeError" -> Reply(500, "TypeError")
               [] c.n <= 0 -> Reply(400, "Points must be a positive integer")
               [] OTHER -> NoResp

\* not start_date: the parameter is missing or empty.
Falsy(v) == v = Absent \/ v.s = <<>>

ValidateSalesByType(r) ==
    IF r.filter = JStr(Custom) /\ (Falsy(r.start_date) \/ Falsy(r.end_date))
    THEN Reply(400, "Both start_date and end_date are required for custom filter")
    ELSE NoResp

ValidateSalesOverTime(r) ==
    IF r.filter = JStr(Custom) /\ (Falsy(r.start_date) \/ Falsy(r.end_date))
    THEN Reply(400, "Both start_date and end_date are required for custom filter")
    ELSE NoResp

ValidateReports(r) ==
    IF r.filter = JStr(Custom) /\ (Falsy(r.start_date) \/ Falsy(r.end_date))
    THEN Reply(400, "Both start_date and end_date are required for custom filter")
    ELSE NoResp

Validate(r) ==
    CASE r.op = "sale" -> ValidateSale(r)
      [] r.op = "customer" -> ValidateCustomer(r)
      [] r.op = "reward" -> ValidateReward(r)
      [] r.op = "report" /\ r.endpoint = "sales_by_type" -> ValidateSalesByType(r)
      [] r.op = "report" /\ r.endpoint = "sales_over_time" -> ValidateSalesOverTime(r)
      [] r.op = "report" /\ r.endpoint = "reports" -> ValidateReports(r)

\* The model's caps: no reward is sent once a counter passed MaxPoints, no
\* sale once the ledger has MaxSales rows.
WithinBounds(r) ==
    /\ r.op = "reward" => \A i \in DOMAIN customers : customers[i].points <= MaxPoints
    /\ r.op = "sale" => Len(sales) < MaxSales

\* Worker p takes request r, validates it and, when it is valid, connects.
Request(p, r) ==
    /\ pc[p] = "idle"
    /\ WithinBounds(r)
    /\ req' = [req EXCEPT ![p] = r]
    /\ IF Validate(r) = NoResp
       THEN /\ pc' = [pc EXCEPT ![p] = "exec"]
            /\ conn' = [conn EXCEPT ![p] = TRUE]
            /\ resp' = resp
       ELSE /\ pc' = [pc EXCEPT ![p] = "done"]
            /\ resp' = [resp EXCEPT ![p] = Validate(r)]
            /\ conn' = conn
    /\ UNCHANGED <<customers, sales, tx, garbage, acked>>

----------------------------------------------------------------------------
(* The writing statements.  An error of the store is an exception: the     *)
(* with block rolls the transaction back and the handler answers 500.      *)

\* log_sale: INSERT INTO sales (fuel_type, quantity, price, date) VALUES (...)
ExecInsertSale(p) ==
    /\ pc[p] = "exec"
    /\ req[p].op = "sale"
    /\ IF SaleError(req[p]) # "none"
       THEN /\ pc' = [pc EXCEPT ![p] = "done"]
            /\ resp' = [resp EXCEPT ![p] = Reply(500, SaleError(req[p]))]
            /\ tx' = tx
       ELSE /\ pc' = [pc EXCEPT ![p] = "commit"]
            /\ resp' = resp
            /\ tx' = [tx EXCEPT ![p] =
                   [k |-> "insert_sale", rowcount |-> 1, row |-> SaleRow(req[p])]]
    /\ UNCHANGED <<customers, sales, req, conn, garbage, acked>>

\* add_customer: INSERT INTO customers (name) VALUES (strip(name))
\* ON CONFLICT (name) DO NOTHING
ExecInsertCustomer(p) ==
    /\ pc[p] = "exec"
    /\ req[p].op = "customer"
    /\ LET name == Strip(req[p].name.s)
       IN  /\ ~InsertPending(name, p)
           /\ tx' = [tx EXCEPT ![p] =
                  IF NameConflict(name) THEN NoTx
                  ELSE [k |-> "insert_customer", rowcount |-> 1, name |-> name]]
    /\ pc' = [pc EXCEPT ![p] = "commit"]
    /\ UNCHANGED <<customers, sales, req, resp, conn, garbage, acked>>

\* update_rewards: UPDATE customers SET points = points + %s WHERE name = %s.
\* The statement waits for a row another transaction has updated; a sum that
\* does not fit the INTEGER column is an error (integer out of range).
ExecUpdate(p) ==
    /\ pc[p] = "exec"
    /\ req[p].op = "reward"
    /\ LET amount == PyInt(req[p].points).n
           rows == MatchingRows(req[p].name.s)
       IN  /\ \A i \in rows : ~RowLocked(i, p)
           /\ IF \E i \in rows : amount > IntMax - customers[i].points
              THEN /\ pc' = [pc EXCEPT ![p] = "done"]
                   /\ resp' = [resp EXCEPT ![p] = Reply(500, "integer out of range")]
                   /\ tx' = tx
              ELSE /\ pc' = [pc EXCEPT ![p] = "commit"]
                   /\ resp' = resp
                   /\ tx' = [tx EXCEPT ![p] =
                          IF rows = {} THEN NoTx
                          ELSE [k |-> "update", rowcount |-> Cardinality(rows),
                                new |-> [i \in rows |-> customers[i].points + amount]]]
    /\ UNCHANGED <<customers, sales, req, conn, garbage, acked>>

----------------------------------------------------------------------------
(* conn.commit() and the handler's answer *)

\* The customers table after the transaction t is committed; a new row takes
\* the column's DEFAULT 0 points.
CommittedCustomers(t) ==
    CASE t.k = "insert_customer" -> Append(customers, [name |-> t.name, points |-> 0])
      [] t.k = "update" ->
            [i \in DOMAIN customers |->
                IF i \in DOMAIN t.new
                THEN [customers[i] EXCEPT !.points = t.new[i]]
                ELSE customers[i]]
      [] OTHER -> customers

\* The sales table after the transaction t is committed.
CommittedSales(t) == IF t.k = "insert_sale" THEN Append(sales, t.row) ELSE sales

\* A faulty variant of Answer, to test the properties against: update_rewards does not look at cursor.rowcount.
AnswerWithoutRowcount(r, t) ==
    CASE r.op = "sale" -> Reply(201, "Sale logged successfully")
      [] r.op = "customer" ->
            IF t.rowcount = 0 THEN Reply(200, "Customer already exists")
            ELSE Reply(201, "Customer added successfully")
      [] r.op = "reward" -> Reply(200, "Points updated successfully")

\* The handler's answer after the commit, decided by cursor.rowcount.
Answer(r, t) ==
    CASE r.op = "sale" -> Reply(201, "Sale logged successfully")
      [] r.op = "customer" ->
            IF t.rowcount = 0 THEN Reply(200, "Customer already exists")
            ELSE Reply(201, "Customer added successfully")
      [] r.op = "reward" ->
            IF t.rowcount = 0 THEN Reply(404, "Customer not found")
            ELSE Reply(200, "Points updated successfully")

Commit(p) ==
    /\ pc[p] = "commit"
    /\ customers' = CommittedCustomers(tx[p])
    /\ sales' = CommittedSales(tx[p])
    /\ resp' = [resp EXCEPT ![p] = Answer(req[p], tx[p])]
    /\ acked' =
          IF req[p].op = "reward" /\ Answer(req[p], tx[p]).status = 200
          THEN [acked EXCEPT ![req[p].name.s] = @ + PyInt(req[p].points).n]
          ELSE acked
    /\ tx' = [tx EXCEPT ![p] = [k |-> "none", rowcount |-> tx[p].rowcount]]
    /\ pc' = [pc EXCEPT ![p] = "done"]
    /\ UNCHANGED <<req, conn, garbage>>

----------------------------------------------------------------------------
(* The reports *)

RECURSIVE SumQuantity(_)
SumQuantity(rows) ==
    IF rows = <<>> THEN 0 ELSE Head(rows).quantity + SumQuantity(Tail(rows))

RECURSIVE SumRevenue(_)
SumRevenue(rows) ==
    IF rows = <<>> THEN 0
    ELSE Head(rows).quantity * Head(rows).price + SumRevenue(Tail(rows))

\* A faulty variant of Where, to test the properties against: BETWEEN with its upper bound left out.
WhereFromStart(r, rows) ==
    IF r.filter = JStr(Custom)
    THEN SelectSeq(rows, LAMBDA s : TextLE(r.start_date.s, s.date))
    ELSE rows

\* The rows the query reads: all of them, or with filter=custom those
\* WHERE date BETWEEN start_date AND end_date.
Where(r, rows) ==
    IF r.filter = JStr(Custom)
    THEN SelectSeq(rows, LAMBDA s : TextLE(r.start_date.s, s.date) /\ TextLE(s.date, r.end_date.s))
    ELSE rows

\* The orders a set of result rows can be returned in.
Orderings(S) ==
    {f \in [1..Cardinality(S) -> S] : \A i, j \in 1..Cardinality(S) : i # j => f[i] # f[j]}

\* A faulty variant of OrderByDate, to test the properties against: the rows in whatever order the store groups them.
AnyOrder(S) == Orderings(S)

\* ORDER BY date ASC
OrderByDate(S) ==
    {f \in Orderings(S) : \A i \in 1..(Cardinality(S) - 1) : TextLE(f[i].date, f[i + 1].date)}

\* SELECT fuel_type, SUM(quantity) FROM sales [WHERE ...] GROUP BY fuel_type
SalesByTypeQuery(r) ==
    LET rows == Where(r, sales)
    IN  Orderings({[fuel_type |-> f,
                    total_quantity |-> SumQuantity(SelectSeq(rows, LAMBDA s : s.fuel_type = f))] :
                       f \in {rows[i].fuel_type : i \in DOMAIN rows}})

\* SELECT date, SUM(quantity * price) FROM sales [WHERE ...]
\* GROUP BY date ORDER BY date ASC
SalesOverTimeQuery(r) ==
    LET rows == Where(r, sales)
    IN  OrderByDate({[date |-> d,
                      total_sales |-> SumRevenue(SelectSeq(rows, LAMBDA s : s.date = d))] :
                         d \in {rows[i].date : i \in DOMAIN rows}})

\* SELECT fuel_type, SUM(quantity), SUM(quantity * price) FROM sales
\* [WHERE ...] GROUP BY fuel_type
ReportsQuery(r) ==
    LET rows == Where(r, sales)
    IN  Orderings({[fuel_type |-> f,
                    total_quantity |-> SumQuantity(SelectSeq(rows, LAMBDA s : s.fuel_type = f)),
                    total_revenue |-> SumRevenue(SelectSeq(rows, LAMBDA s : s.fuel_type = f))] :
                       f \in {rows[i].fuel_type : i \in DOMAIN rows}})

\* The results the store may return for the report request r.
Query(r) ==
    CASE r.endpoint = "sales_by_type" -> SalesByTypeQuery(r)
      [] r.endpoint = "sales_over_time" -> SalesOverTimeQuery(r)
      [] r.endpoint = "reports" -> ReportsQuery(r)

\* The three report handlers: execute the query, fetchall, answer the rows
\* (float(row[i]) leaves a number's value as it is).
ExecSelect(p) ==
    /\ pc[p] = "exec"
    /\ req[p].op = "report"
    /\ \E rows \in Query(req[p]) :
          resp' = [resp EXCEPT ![p] = [status |-> 200, body |-> "rows", rows |-> rows]]
    /\ pc' = [pc EXCEPT ![p] = "done"]
    /\ UNCHANGED <<customers, sales, req, tx, conn, garbage, acked>>

----------------------------------------------------------------------------
(* The handler returns: its frame, and with it the last reference to the   *)
(* connection, goes away.  The with block of a psycopg2 connection ends    *)
(* the transaction and leaves the connection open; no handler calls        *)
(* conn.close().  The connection is closed when its object is finalized:   *)
(* at once under reference counting, at some later collection otherwise.   *)

Return(p) ==
    /\ pc[p] = "done"
    /\ pc' = [pc EXCEPT ![p] = "idle"]
    /\ req' = [req EXCEPT ![p] = NoReq]
    /\ resp' = [resp EXCEPT ![p] = NoResp]
    /\ tx' = [tx EXCEPT ![p] = NoTx]
    /\ conn' = [conn EXCEPT ![p] = FALSE]
    /\ \/ garbage' = garbage
       \/ /\ conn[p]
          /\ garbage < MaxGarbage
          /\ garbage' = garbage + 1
    /\ UNCHANGED <<customers, sales, acked>>

\* The collector finalizes an unreferenced connection, which closes it.
Finalize ==
    /\ garbage > 0
    /\ garbage' = garbage - 1
    /\ UNCHANGED <<customers, sales, pc, req, tx, resp, conn, acked>>

\* The connections that are open.
OpenConnections == Cardinality({p \in Procs : conn[p]}) + garbage

----------------------------------------------------------------------------
(* Specifications.  The two tables share no statement, so the requests to  *)
(* each are explored on their own; SpecConcurrent runs two workers.        *)

\* One step of worker p on the customers table, with its requests from R.
CustomerStep(p, R) ==
    \/ \E r \in R : Request(p, r)
    \/ ExecInsertCustomer(p)
    \/ ExecUpdate(p)
    \/ Commit(p)
    \/ Return(p)

\* One worker, every request to the customers table.
NextCustomers ==
    \/ CustomerStep(1, CustomerRequests \cup RewardRequests)
    \/ Finalize

SpecCustomers == Init /\ [][NextCustomers]_vars

\* The requests two concurrent workers take: valid ones, to two customers.
ConcurrentRequests ==
    {[op |-> "customer", name |-> n] : n \in {JStr(<<"a">>), JStr(<<" ", "a">>), JStr(<<"b">>)}}
        \cup {[op |-> "reward", name |-> n, points |-> v] :
                 n \in {JStr(<<"a">>), JStr(<<"b">>)},
                 v \in {JInt(1), JInt(2), JInt(IntMax)}}

\* Two workers at once.
NextConcurrent ==
    \/ \E p \in Procs : CustomerStep(p, ConcurrentRequests)
    \/ Finalize

SpecConcurrent == Init /\ [][NextConcurrent]_vars

\* One worker, every request to the sales table.
NextSales ==
    \/ \E r \in SaleRequests \cup ReportRequests : Request(1, r)
    \/ ExecInsertSale(1)
    \/ ExecSelect(1)
    \/ Commit(1)
    \/ Return(1)
    \/ Finalize

SpecSales == Init /\ [][NextSales]_vars

----------------------------------------------------------------------------
(* Properties of the customers table *)

\* Worker p's statement runs in this step.
Executes(p) == pc[p] = "exec" /\ pc'[p] # "exec"

\* Worker p's conn.commit() runs in this step.
Commits(p) == pc[p] = "commit" /\ pc'[p] = "done"

IsReward(p) == req[p].op = "reward"

IsCustomer(p) == req[p].op = "customer"

PositiveInteger(v) == v.k = "int" /\ v.n > 0

Stored(name) == \E i \in DOMAIN customers : customers[i].name = name

\* Adding n to the counter of name stays within the INTEGER column.
Fits(name, n) ==
    \A i \in DOMAIN customers :
        customers[i].name = name => n <= IntMax - customers[i].points

\* The table with n added to the points of name and nothing else changed.
Rewarded(name, n) ==
    [i \in DOMAIN customers |->
        IF customers[i].name = name
        THEN [customers[i] EXCEPT !.points = @ + n]
        ELSE customers[i]]

\* C1 as stated: a reward of a positive integer to a stored name is executed,
\* answered 200 and adds exactly that integer to that customer alone.
C1_RewardAlwaysSucceeds ==
    [][\A p \in Procs :
        /\ (Executes(p) /\ IsReward(p) /\ PositiveInteger(req[p].points)
                /\ Stored(req[p].name.s))
              => (pc'[p] = "commit" /\ tx'[p].k = "update")
        /\ (Commits(p) /\ IsReward(p) /\ PositiveInteger(req[p].points)
                /\ tx[p].k = "update")
              => (resp'[p].status = 200
                  /\ customers' = Rewarded(req[p].name.s, req[p].points.n))]_vars

\* C1, amended: a reward of a positive integer n to a stored name whose points
\* plus n do not exceed 2147483647 is executed, answered 200 and adds exactly
\* n to that customer, leaving the other rows and the set of rows as they
\* were; when the sum exceeds 2147483647 the answer is 500 and nothing changes.
C1_RewardAddsExactly ==
    [][\A p \in Procs :
        /\ (Executes(p) /\ IsReward(p) /\ PositiveInteger(req[p].points)
                /\ Stored(req[p].name.s)
                /\ Fits(req[p].name.s, req[p].points.n))
              => (pc'[p] = "commit" /\ tx'[p].k = "update" /\ customers' = customers)
        /\ (Executes(p) /\ IsReward(p) /\ PositiveInteger(req[p].points)
                /\ Stored(req[p].name.s)
                /\ ~Fits(req[p].name.s, req[p].points.n))
              => (resp'[p].status = 500 /\ customers' = customers)
        /\ (Commits(p) /\ IsReward(p) /\ PositiveInteger(req[p].points)
                /\ tx[p].k = "update")
              => (resp'[p].status = 200
                  /\ customers' = Rewarded(req[p].name.s, req[p].points.n))]_vars

\* A second reward to one of two customers has been answered 200, and the
\* customer's points are the sum of the rewards acknowledged.
C1_Witness ==
    \E p \in Procs :
        /\ pc[p] = "done" /\ IsReward(p) /\ PositiveInteger(req[p].points)
        /\ resp[p].status = 200
        /\ Len(customers) = 2
        /\ acked[req[p].name.s] > req[p].points.n
        /\ \E i \in DOMAIN customers :
              customers[i].name = req[p].name.s
                  /\ customers[i].points = acked[req[p].name.s]

\* Another worker has a reward to the same name in flight.
Concurrent(p) ==
    \E q \in Procs \ {p} :
        /\ pc[q] \in {"exec", "commit", "done"}
        /\ IsReward(q)
        /\ req[q].name = req[p].name

\* C2 as stated: of two concurrent rewards to one stored customer both are
\* executed and answered 200, each adding its amount.
C2_BothAlwaysSucceed ==
    [][\A p \in Procs :
        /\ (Executes(p) /\ IsReward(p) /\ Stored(req[p].name.s) /\ Concurrent(p))
              => (pc'[p] = "commit" /\ tx'[p].k = "update")
        /\ (Commits(p) /\ IsReward(p) /\ tx[p].k = "update" /\ Concurrent(p))
              => (resp'[p].status = 200
                  /\ customers' = Rewarded(req[p].name.s, req[p].points.n))]_vars

\* C2, amended: of two concurrent rewards to one stored customer each whose
\* sum stays within 2147483647 is executed and answered 200 and adds exactly
\* its amount, in every interleaving: an uncommitted increment is always the
\* committed points plus its amount, and a customer's points are always the
\* sum of the rewards acknowledged for it.
C2_NoLostUpdate ==
    /\ [](\A i \in DOMAIN customers : customers[i].points = acked[customers[i].name])
    /\ [](\A q \in Procs :
            tx[q].k = "update" =>
                \A i \in DOMAIN tx[q].new :
                    tx[q].new[i] = customers[i].points + req[q].points.n)
    /\ [][\A p \in Procs :
            /\ (Executes(p) /\ IsReward(p) /\ Stored(req[p].name.s) /\ Concurrent(p)
                    /\ Fits(req[p].name.s, req[p].points.n))
                  => (pc'[p] = "commit" /\ tx'[p].k = "update")
            /\ (Commits(p) /\ IsReward(p) /\ tx[p].k = "update" /\ Concurrent(p))
                  => (resp'[p].status = 200
                      /\ customers' = Rewarded(req[p].name.s, req[p].points.n))]_vars

\* Both workers have had a reward to the same customer answered 200, and the
\* customer's points hold both amounts.
C2_Witness ==
    /\ pc[1] = "done" /\ pc[2] = "done"
    /\ IsReward(1) /\ IsReward(2)
    /\ req[1].name = req[2].name
    /\ resp[1].status = 200 /\ resp[2].status = 200
    /\ \E i \in DOMAIN customers :
          customers[i].name = req[1].name.s
              /\ customers[i].points >= req[1].points.n + req[2].points.n

\* C3: a reward of a positive integer to a name no row has is answered 404,
\* creates no row and changes no points; and a reward is answered 200 only in
\* a step that raises the points of the named customer's row and changes no
\* other row.
C3_UnknownNameNotFound ==
    [][\A p \in Procs :
        /\ (Executes(p) /\ IsReward(p) /\ PositiveInteger(req[p].points)
                /\ ~Stored(req[p].name.s))
              => (pc'[p] = "commit" /\ tx'[p] = NoTx /\ customers' = customers)
        /\ (Commits(p) /\ IsReward(p) /\ tx[p].rowcount = 0)
              => (resp'[p].status = 404 /\ customers' = customers)
        /\ (IsReward(p) /\ resp[p].status # 200 /\ resp'[p].status = 200)
              => /\ Len(customers') = Len(customers)
                 /\ \E i \in DOMAIN customers :
                       /\ customers[i].name = req[p].name.s
                       /\ customers'[i].name = customers[i].name
                       /\ customers'[i].points > customers[i].points
                       /\ \A j \in DOMAIN customers \ {i} :
                             customers'[j] = customers[j]]_vars

\* A reward of a positive integer to an unknown name has been answered 404
\* while the table has a customer.
C3_Witness ==
    \E p \in Procs :
        /\ pc[p] = "done" /\ IsReward(p) /\ PositiveInteger(req[p].points)
        /\ resp[p].status = 404
        /\ customers # <<>>
        /\ ~Stored(req[p].name.s)

NoDuplicateNames ==
    \A i, j \in DOMAIN customers : customers[i].name = customers[j].name => i = j

\* C4: adding a customer whose stripped name a row already has inserts
\* nothing and is answered 200 with the warning "Customer already exists",
\* the rows and their points as before; and no two rows ever share a name.
C4_DuplicateIsNoOp ==
    /\ []NoDuplicateNames
    /\ [][\A p \in Procs :
            /\ (Executes(p) /\ IsCustomer(p) /\ Stored(Strip(req[p].name.s)))
                  => (pc'[p] = "commit" /\ tx'[p] = NoTx /\ customers' = customers)
            /\ (Commits(p) /\ IsCustomer(p) /\ tx[p].rowcount = 0)
                  => (resp'[p] = Reply(200, "Customer already exists")
                      /\ customers' = customers)]_vars

\* A name with surrounding whitespace whose stripped form is stored has been
\* answered with the warning.
C4_Witness ==
    \E p \in Procs :
        /\ pc[p] = "done" /\ IsCustomer(p)
        /\ resp[p] = Reply(200, "Customer already exists")
        /\ req[p].name.s # Strip(req[p].name.s)
        /\ Stored(Strip(req[p].name.s))

\* The value is an integer above zero, as a number or as text.
IsPositiveIntegerValue(v) ==
    \/ v.k = "int" /\ v.n > 0
    \/ v.k = "str" /\ IsIntLiteral(Strip(v.s)) /\ IntLiteralVal(Strip(v.s)) > 0

\* C5: a reward request with name and points whose points value is not an
\* integer above zero is answered 400.
C5_InvalidPointsIs400 ==
    \A p \in Procs :
        (pc[p] = "done" /\ IsReward(p)
            /\ req[p].name # Absent /\ req[p].points # Absent
            /\ ~IsPositiveIntegerValue(req[p].points))
          => resp[p].status = 400

\* C6: once every request has returned, no connection is open.
C6_NoConnectionLeftOpen ==
    (\A p \in Procs : pc[p] = "idle") => OpenConnections = 0

\* The text begins or ends with whitespace.
Padded(s) == s # <<>> /\ (IsSpace(Head(s)) \/ IsSpace(s[Len(s)]))

StoredNamesStripped ==
    \A i \in DOMAIN customers :
        customers[i].name # <<>> /\ ~Padded(customers[i].name)

\* int(points) succeeds and is above zero.
ValidPoints(v) == v # Absent /\ PyInt(v).exc = "none" /\ PyInt(v).n > 0

\* C10 as stated: stored names are non-empty and stripped, and a reward whose
\* name has leading or trailing whitespace is always answered 404.
C10_PaddedNameAlways404 ==
    /\ StoredNamesStripped
    /\ \A p \in Procs :
          (pc[p] = "done" /\ IsReward(p) /\ req[p].name # Absent
              /\ req[p].points # Absent /\ Padded(req[p].name.s))
            => resp[p].status = 404

\* C10, amended: stored names are non-empty and stripped; a reward whose name
\* has leading or trailing whitespace is never answered 200 and changes no
\* points, and is answered 404 whenever its points value passes validation.
C10_PaddedNameNeverMatches ==
    /\ []StoredNamesStripped
    /\ [](\A p \in Procs :
            (pc[p] = "done" /\ IsReward(p) /\ req[p].name # Absent
                /\ Padded(req[p].name.s))
              => /\ resp[p].status # 200
                 /\ ValidPoints(req[p].points) => resp[p].status = 404)
    /\ [][\A p \in Procs :
            (pc'[p] # "idle" /\ req'[p].op = "reward" /\ req'[p].name # Absent
                /\ Padded(req'[p].name.s))
              => customers' = customers]_vars

\* A reward to " a" has been answered 404 while the customer "a" is stored.
C10_Witness ==
    \E p \in Procs :
        /\ pc[p] = "done" /\ IsReward(p) /\ req[p].name # Absent
        /\ Padded(req[p].name.s)
        /\ Stored(Strip(req[p].name.s))
        /\ resp[p].status = 404

----------------------------------------------------------------------------
(* Properties of the sales table and the reports *)

\* Worker p takes a request in this step.
Takes(p) == pc[p] = "idle" /\ pc'[p] # "idle"

IsSale(p) == req[p].op = "sale"

IsReport(p) == req[p].op = "report"

IsCustom(r) == r.filter = JStr(Custom)

\* start_date or end_date is absent or empty.
RangeMissing(r) ==
    \/ r.start_date = Absent \/ r.end_date = Absent
    \/ r.start_date.s = <<>> \/ r.end_date.s = <<>>

\* The sales the report r is about: with filter=custom those whose date d has
\* start_date <= d <= end_date, otherwise all.
Matching(r) ==
    {i \in DOMAIN sales :
        IsCustom(r) =>
            TextLE(r.start_date.s, sales[i].date) /\ TextLE(sales[i].date, r.end_date.s)}

RECURSIVE QuantityOf(_)
QuantityOf(I) ==
    IF I = {} THEN 0
    ELSE LET i == CHOOSE x \in I : TRUE
         IN  sales[i].quantity + QuantityOf(I \ {i})

RECURSIVE RevenueOf(_)
RevenueOf(I) ==
    IF I = {} THEN 0
    ELSE LET i == CHOOSE x \in I : TRUE
         IN  sales[i].quantity * sales[i].price + RevenueOf(I \ {i})

\* What each endpoint is to return for the sales I, as a set of entries.
Expected(e, I) ==
    CASE e = "sales_by_type" ->
            {[fuel_type |-> f,
              total_quantity |-> QuantityOf({i \in I : sales[i].fuel_type = f})] :
                f \in {sales[i].fuel_type : i \in I}}
      [] e = "sales_over_time" ->
            {[date |-> d,
              total_sales |-> RevenueOf({i \in I : sales[i].date = d})] :
                d \in {sales[i].date : i \in I}}
      [] e = "reports" ->
            {[fuel_type |-> f,
              total_quantity |-> QuantityOf({i \in I : sales[i].fuel_type = f}),
              total_revenue |-> RevenueOf({i \in I : sales[i].fuel_type = f})] :
                f \in {sales[i].fuel_type : i \in I}}

Entries(rows) == {rows[j] : j \in DOMAIN rows}

\* C7: in each of the three report endpoints a filter=custom request whose
\* start_date or end_date is absent or empty is answered 400 with no
\* connection opened; with both dates it is answered with the aggregates of
\* exactly the sales dated from start_date to end_date, both included.
C7_CustomRange ==
    \A p \in Procs :
        (pc[p] = "done" /\ IsReport(p) /\ IsCustom(req[p]))
          => IF RangeMissing(req[p])
             THEN resp[p].status = 400 /\ ~conn[p]
             ELSE /\ resp[p].status = 200
                  /\ Entries(resp[p].rows) = Expected(req[p].endpoint, Matching(req[p]))
                  /\ Len(resp[p].rows) = Cardinality(Entries(resp[p].rows))

\* A custom report has been answered from a ledger that has a sale on the
\* range's upper bound and a sale outside the range.
C7_Witness ==
    \E p \in Procs :
        /\ pc[p] = "done" /\ IsReport(p) /\ IsCustom(req[p])
        /\ ~RangeMissing(req[p])
        /\ resp[p].status = 200
        /\ \E i \in Matching(req[p]) : sales[i].date = req[p].end_date.s
        /\ Matching(req[p]) # DOMAIN sales

\* C8: Totals Over Time returns one entry for each date among the matching
\* sales, its total_sales the sum of quantity * price over the matching sales
\* of that date, the entries in ascending order of date.
C8_TotalsOverTime ==
    \A p \in Procs :
        (pc[p] = "done" /\ IsReport(p) /\ req[p].endpoint = "sales_over_time"
            /\ resp[p].status = 200)
          => LET rows == resp[p].rows
                 I == Matching(req[p])
             IN  /\ Len(rows) = Cardinality({sales[i].date : i \in I})
                 /\ \A i \in I :
                       \E j \in DOMAIN rows :
                           /\ rows[j].date = sales[i].date
                           /\ rows[j].total_sales =
                                 RevenueOf({k \in I : sales[k].date = sales[i].date})
                 /\ \A j, k \in DOMAIN rows :
                       j < k => rows[j].date # rows[k].date
                                    /\ TextLE(rows[j].date, rows[k].date)

\* Totals Over Time has returned two dates in ascending order from a ledger
\* that holds them in descending order.
C8_Witness ==
    \E p \in Procs :
        /\ pc[p] = "done" /\ IsReport(p) /\ req[p].endpoint = "sales_over_time"
        /\ resp[p].status = 200
        /\ Len(resp[p].rows) = 2
        /\ Len(sales) = 2
        /\ sales[1].date = resp[p].rows[2].date
        /\ resp[p].rows[1].total_sales # sales[2].price

FieldsOf(r) == {r.fuel_type, r.quantity, r.price, r.date}

\* The value is a number, or a text that is a numeric literal.
NumberLike(v) == v.k = "int" \/ (v.k = "str" /\ IsIntLiteral(Strip(v.s)))

NumberOf(v) == IF v.k = "int" THEN v.n ELSE IntLiteralVal(Strip(v.s))

\* No field of the sale is null, quantity and price are numeric.
WellTyped(r) == Null \notin FieldsOf(r) /\ NumberLike(r.quantity) /\ NumberLike(r.price)

\* The row that carries the four values the request supplies.
SuppliedRow(r) ==
    [fuel_type |-> r.fuel_type.s, quantity |-> NumberOf(r.quantity),
     price |-> NumberOf(r.price), date |-> r.date.s]

====
